---- MODULE Spec2Model ----
(***************************************************************************)
(* JsonLinkedDataProofs (src/libs/sdk/lib/JsonLinkedDataProofs.ts): the    *)
(* embedded linked-data proof of a credential.  One processor instance is  *)
(* modelled with its held credential slot; sign, verify, serialize and     *)
(* deserialize are the class's methods, createVerifyData its shared        *)
(* primitive.  The collaborators (canonicalizer, digest, signer, token     *)
(* builder) are ideal: canonical forms forget key order and nothing else,  *)
(* digests and signatures do not collide.                                  *)
(***************************************************************************)
EXTENDS Integers, Sequences, FiniteSets, TLC

(***************************************************************************)
(* Bounds of the model.                                                    *)
(***************************************************************************)
\* the clock read by new Date() shows one of the times 1..MaxClock
MaxClock == 1
\* number of in-place changes the caller makes to a retained payload
MaxEdits == 1
\* number of calls of sign, verify, serialize and deserialize, and of changes
\* to a retained payload, in one run
MaxCalls == 4

(***************************************************************************)
(* JavaScript values.  Every value is a record of one shape so that any    *)
(* two values can be compared: t is the type, b the boolean, s the         *)
(* characters of a string, f the own properties of an object in insertion  *)
(* order.  A string is a sequence of chunks; a chunk is either the         *)
(* character '.', or a run of characters holding no '.'.                   *)
(***************************************************************************)
Val(t, b, s, f) == [t |-> t, b |-> b, s |-> s, f |-> f]
Undefined == Val("undefined", FALSE, <<>>, <<>>)
Null == Val("null", FALSE, <<>>, <<>>)
Bool(b) == Val("boolean", b, <<>>, <<>>)
Str(chunks) == Val("string", FALSE, chunks, <<>>)
Obj(fields) == Val("object", FALSE, <<>>, fields)
Field(k, v) == [k |-> k, v |-> v]

\* chunks: c the kind, n a label, i a number, sig the bytes a base64url run encodes
NoBytes == <<>>
Chunk(c, n, i, sig) == [c |-> c, n |-> n, i |-> i, sig |-> sig]
Dot == Chunk("dot", ".", 0, NoBytes)
Txt(n) == Str(<<Chunk("txt", n, 0, NoBytes)>>)
EmptyString == Str(<<>>)

\* !x
Truthy(v) ==
    \/ v.t = "object"
    \/ v.t = "string" /\ v.s # <<>>
    \/ v.t = "boolean" /\ v.b

\* index of own property k of object o, 0 when absent
RECURSIVE IndexOf(_, _, _)
IndexOf(fs, k, i) ==
    IF i > Len(fs) THEN 0
    ELSE IF fs[i].k = k THEN i
    ELSE IndexOf(fs, k, i + 1)

HasOwn(o, k) == o.t = "object" /\ IndexOf(o.f, k, 1) # 0

\* o[k]: undefined for an absent property and for a primitive
Get(o, k) ==
    IF HasOwn(o, k) THEN o.f[IndexOf(o.f, k, 1)].v ELSE Undefined

\* o[k] = v: an existing property keeps its place, a new one is appended
SetProp(o, k, v) ==
    IF o.t # "object" THEN o
    ELSE IF HasOwn(o, k)
         THEN Obj([o.f EXCEPT ![IndexOf(o.f, k, 1)] = Field(k, v)])
         ELSE Obj(Append(o.f, Field(k, v)))

\* delete o[k]
DeleteProp(o, k) ==
    IF ~HasOwn(o, k) THEN o
    ELSE LET j == IndexOf(o.f, k, 1)
         IN Obj(SubSeq(o.f, 1, j - 1) \o SubSeq(o.f, j + 1, Len(o.f)))

\* clone(x): a deep copy, a value that shares nothing with x
Clone(x) == x

\* s.split('.')
RECURSIVE SplitFrom(_, _, _)
SplitFrom(s, i, cur) ==
    IF i > Len(s) THEN <<cur>>
    ELSE IF s[i].c = "dot" THEN <<cur>> \o SplitFrom(s, i + 1, <<>>)
    ELSE SplitFrom(s, i + 1, Append(cur, s[i]))

Split(s) == SplitFrom(s, 1, <<>>)

(***************************************************************************)
(* Collaborators.  An identity is a signing key reference with its DID;    *)
(* its public key is named like it.                                        *)
(***************************************************************************)
Identities == {"K1", "K2"}

\* bytes: a digest pair, a signing input, or a signature over a signing input
Bytes(kind, key, hdr, vd) == [kind |-> kind, key |-> key, hdr |-> hdr, vd |-> vd]
Garbage == Bytes("garbage", "", <<>>, <<>>)

\* jsonld.canonize(x, URDNA2015, n-quads): the logical content of x, the order
\* of its properties forgotten
RECURSIVE Canonize(_)
Canonize(x) ==
    [t |-> x.t, b |-> x.b, s |-> x.s,
     f |-> {Field(x.f[i].k, Canonize(x.f[i].v)) : i \in DOMAIN x.f}]

\* subtle.digest(SHA-256, bytes): no two inputs collide
Digest(canonized) == [sha |-> canonized]

\* base64url.encode(bytes): one run of characters of the base64url alphabet
Base64UrlEncode(bytes) == Chunk("b64", "", 0, <<bytes>>)

\* base64url.toBuffer(segment): the bytes the segment encodes
Base64UrlToBuffer(segment) ==
    IF Len(segment) = 1 /\ segment[1].c = "b64" THEN segment[1].sig[1] ELSE Garbage

\* the header segment the token builder writes for the signing key of id
HeaderOf(id) == Chunk("hdr", id, 0, NoBytes)

\* new JoseBuilder(crypto).build().sign(verifyData).serialize(): the compact
\* token header.payload.signature
JoseSerialize(id, verifyData) ==
    <<HeaderOf(id), Dot,
      Base64UrlEncode(Bytes("payload", "", <<>>, verifyData)), Dot,
      Base64UrlEncode(Bytes("jose", id, <<HeaderOf(id)>>, verifyData))>>

\* Buffer.concat([Buffer.from(header), Buffer.from('.'), verifyData])
ConcatInput(header, verifyData) == Bytes("input", "", header, verifyData)

\* subtleExtension.signByKeyStore(eddsa, signingKeyReference, data)
SignByKeyStore(id, data) == Bytes("eddsa", id, data.hdr, data.vd)

\* subtleExtension.verifyByJwk(eddsa, publicKey, signature, data)
VerifyByJwk(publicKey, signature, data) ==
    /\ signature.kind = "eddsa"
    /\ signature.key = publicKey
    /\ signature.hdr = data.hdr
    /\ signature.vd = data.vd

(***************************************************************************)
(* createVerifyData(payload, crypto, proof)                                *)
(***************************************************************************)
SecurityContext == Txt("https://w3id.org/security/v2")
SuiteType == Txt("Ed25519Signature2018")
AssertionMethod == Txt("assertionMethod")
\* `${crypto.builder.did}#${crypto.builder.signingKeyReference}`
VerificationMethodOf(id) == Str(<<Chunk("vm", id, 0, NoBytes)>>)
\* new Date().toUTCString() when the clock shows now
UTCString(now) == Str(<<Chunk("date", "", now, NoBytes)>>)

\* lines 132-140: the proof options minted on the signing path
FreshProof(id, now) ==
    Obj(<<Field("@context", SecurityContext),
          Field("type", SuiteType),
          Field("verificationMethod", VerificationMethodOf(id)),
          Field("proofPurpose", AssertionMethod),
          Field("created", UTCString(now))>>)

\* the existing proof with its @context overwritten whatever it holds
ContextOverwritten(proof) ==
    DeleteProp(SetProp(Clone(proof), "@context", SecurityContext), "jws")

\* lines 142-146: the proof options replayed from an existing proof
ReplayedProof(proof) ==
    LET embedded == Clone(proof)
        withContext == IF ~Truthy(Get(embedded, "@context"))
                       THEN SetProp(embedded, "@context", SecurityContext)
                       ELSE embedded
    IN DeleteProp(withContext, "jws")

\* verifyData: the two digests, proof options first; proof: the embedded
\* proof returned (its @context deleted); minted: the clock was read for a
\* fresh proof; passed: the proof object handed in, as the call leaves it
CreateVerifyData(payload, id, proof, now) ==
    LET embeddedProof == IF ~Truthy(proof) THEN FreshProof(id, now)
                         ELSE ReplayedProof(proof)
        proofHash == Digest(Canonize(embeddedProof))
        payloadHash == Digest(Canonize(payload))
    IN [verifyData |-> <<proofHash, payloadHash>>,
        proof |-> DeleteProp(embeddedProof, "@context"),
        minted |-> ~Truthy(proof),
        passed |-> proof]

(***************************************************************************)
(* JSON text: a sequence of tokens.  k is the kind of token, n the name of *)
(* a property, v the value of a literal.                                   *)
(***************************************************************************)
Tok(k, n, v) == [k |-> k, n |-> n, v |-> v]
LBrace == Tok("{", "", Undefined)
RBrace == Tok("}", "", Undefined)
Colon == Tok(":", "", Undefined)
Comma == Tok(",", "", Undefined)
Key(n) == Tok("key", n, Undefined)
Lit(v) == Tok("lit", "", v)

\* JSON.stringify(x): the properties in insertion order, those whose value is
\* undefined left out
RECURSIVE JSONStringify(_), StringifyMembers(_, _, _)
JSONStringify(x) ==
    IF x.t = "object"
    THEN <<LBrace>> \o StringifyMembers(x.f, 1, TRUE) \o <<RBrace>>
    ELSE <<Lit(x)>>

StringifyMembers(fs, i, first) ==
    IF i > Len(fs) THEN <<>>
    ELSE IF fs[i].v.t = "undefined" THEN StringifyMembers(fs, i + 1, first)
    ELSE (IF first THEN <<>> ELSE <<Comma>>)
         \o <<Key(fs[i].k), Colon>> \o JSONStringify(fs[i].v)
         \o StringifyMembers(fs, i + 1, FALSE)

ParseFail == [ok |-> FALSE, v |-> Undefined, next |-> 0]
KindAt(text, i) == IF i \in DOMAIN text THEN text[i].k ELSE "eof"

\* JSON.parse(text): the value read from position i on, and where it ends
RECURSIVE ParseValue(_, _), ParseMembers(_, _, _)
ParseValue(text, i) ==
    IF KindAt(text, i) = "lit" THEN [ok |-> TRUE, v |-> text[i].v, next |-> i + 1]
    ELSE IF KindAt(text, i) = "{"
         THEN IF KindAt(text, i + 1) = "}"
              THEN [ok |-> TRUE, v |-> Obj(<<>>), next |-> i + 2]
              ELSE ParseMembers(text, i + 1, Obj(<<>>))
    ELSE ParseFail

ParseMembers(text, i, acc) ==
    IF KindAt(text, i) # "key" \/ KindAt(text, i + 1) # ":" THEN ParseFail
    ELSE LET r == ParseValue(text, i + 2)
         IN IF ~r.ok THEN ParseFail
            ELSE IF KindAt(text, r.next) = ","
                 THEN ParseMembers(text, r.next + 1, SetProp(acc, text[i].n, r.v))
            ELSE IF KindAt(text, r.next) = "}"
                 THEN [ok |-> TRUE, v |-> SetProp(acc, text[i].n, r.v),
                       next |-> r.next + 1]
            ELSE ParseFail

JSONParse(text) ==
    LET r == ParseValue(text, 1)
    IN IF r.ok /\ r.next = Len(text) + 1 THEN [ok |-> TRUE, v |-> r.v]
       ELSE [ok |-> FALSE, v |-> Undefined]

(***************************************************************************)
(* sign(payload), lines 31-66                                              *)
(***************************************************************************)
\* the token written with one '.' between header and signature
OneDotJws(header, signature) ==
    Str(header \o <<Dot>> \o <<Base64UrlEncode(signature)>>)

\* line 60: `${splitter[0]}..${base64url.encode(Buffer.from(signature))}`
DetachedJws(header, signature) ==
    Str(header \o <<Dot, Dot>> \o <<Base64UrlEncode(signature)>>)

\* outcome and the object the slot holds afterwards; held is the payload
\* object itself, with the proof set on it
SignRun(payload, held, id, now) ==
    IF ~Truthy(payload) \/ payload.t # "object"
    THEN [outcome |-> "InvalidInput", held |-> held]
    ELSE LET cvd == CreateVerifyData(payload, id, Undefined, now)
             splitter == Split(JoseSerialize(id, cvd.verifyData))
             payloadToSign == ConcatInput(splitter[1], cvd.verifyData)
             signature == SignByKeyStore(id, payloadToSign)
             proof == SetProp(cvd.proof, "jws", DetachedJws(splitter[1], signature))
         IN [outcome |-> "ok", held |-> SetProp(payload, "proof", proof)]

(***************************************************************************)
(* verify(validationKeys), lines 74-102                                    *)
(***************************************************************************)
\* validationKeys: given is FALSE when the argument is left out
NoKeys == [given |-> FALSE, list |-> <<>>]
KeyList(l) == [given |-> TRUE, list |-> l]

\* the proof deleted from the held object itself, no clone taken
VerifyNoClone(held) ==
    [payload |-> DeleteProp(held, "proof"), held |-> DeleteProp(held, "proof")]

\* lines 81-82: the payload verify hashes, and the held object afterwards
VerifyClone(held) ==
    [payload |-> DeleteProp(Clone(held), "proof"), held |-> held]

\* the jws read from the proof taken at line 80
HeldAtLine80(current, atStart) == atStart

\* line 88: the object whose proof.jws is read after the await of line 85
HeldAtLine88(current, atStart) == current

\* a token of three segments or more passes
FewerThanThree(signParts) == Len(signParts) < 3

\* line 90: signParts.length !== 3
NotThreeParts(signParts) == Len(signParts) # 3

\* the last key of the list
LastKey(keys) == keys.list[Len(keys.list)]

\* line 100: validationKeys![0]
FirstKey(keys) == keys.list[1]

\* only a slot never written counts as empty
NeverWritten(held) == held.t = "undefined"

\* lines 75 and 108: !this._credential
NoCredential(held) == ~Truthy(held)

\* lines 88-101
CheckSignature(held, verifyData, keys) ==
    IF held.t \in {"undefined", "null"} THEN "TypeError"
    ELSE LET proof == Get(held, "proof")
         IN IF proof.t \in {"undefined", "null"} THEN "TypeError"
            ELSE LET signature == Get(proof, "jws")
                 IN IF signature.t # "string" THEN "TypeError"
                    ELSE LET signParts == Split(signature.s)
                         IN IF NotThreeParts(signParts) THEN "MalformedToken"
                            ELSE IF ~keys.given THEN "TypeError"
                            ELSE IF VerifyByJwk(FirstKey(keys),
                                        Base64UrlToBuffer(signParts[3]),
                                        ConcatInput(signParts[1], verifyData))
                                 THEN "true" ELSE "false"

\* lines 79-85: the VerifyData of the held credential, the held object as the
\* clone and createVerifyData leave it, and whether a proof was minted
VerifyPrepare(held, id, now) ==
    LET proof == Get(held, "proof")
        c == VerifyClone(held)
        cvd == CreateVerifyData(c.payload, id, proof, now)
    IN [verifyData |-> cvd.verifyData,
        held |-> IF HasOwn(c.held, "proof")
                 THEN SetProp(c.held, "proof", cvd.passed) ELSE c.held,
        minted |-> cvd.minted]

\* one whole call with nothing running between its awaits
VerifyRun(held, id, keys, now) ==
    IF NoCredential(held)
    THEN [outcome |-> "NoCredential", held |-> held, minted |-> FALSE]
    ELSE LET p == VerifyPrepare(held, id, now)
         IN [outcome |-> CheckSignature(HeldAtLine88(p.held, held),
                                        p.verifyData, keys),
             held |-> p.held, minted |-> p.minted]

(***************************************************************************)
(* serialize(), lines 107-113, and deserialize(text), lines 119-122        *)
(***************************************************************************)
\* the document serialized without its proof
SerializeWithoutProof(held) ==
    IF NoCredential(held) THEN [outcome |-> "NoCredential", text |-> <<>>]
    ELSE [outcome |-> "ok", text |-> JSONStringify(DeleteProp(held, "proof"))]

SerializeRun(held) ==
    IF NoCredential(held) THEN [outcome |-> "NoCredential", text |-> <<>>]
    ELSE [outcome |-> "ok", text |-> JSONStringify(held)]

DeserializeRun(text, held) ==
    LET r == JSONParse(text)
    IN IF r.ok THEN [outcome |-> "ok", held |-> r.v]
       ELSE [outcome |-> "ParseError", held |-> held]

(***************************************************************************)
(* The processor and its caller.                                           *)
(***************************************************************************)
VARIABLES
    credential,  \* this._credential
    identity,    \* the did and signing key reference of this._signer
    pending,     \* a verify call suspended at the await of line 85
    edits,       \* changes the caller made to the payload it handed to sign
    origin,      \* what filled the slot: "none", "sign" or "text"
    signed,      \* the credential as the latest sign left it
    serialized,  \* the string the latest serialize returned, and its source
    roundTrip,   \* the slot was filled by deserialize of that string
    calls,       \* calls completed so far
    last         \* the call that completed last

vars == <<credential, identity, pending, edits, origin, signed,
          serialized, roundTrip, calls, last>>

\* documents handed to sign
DocAlice == Obj(<<Field("name", Txt("Alice"))>>)
DocBob == Obj(<<Field("name", Txt("Bob"))>>)
ForeignProof ==
    Obj(<<Field("type", SuiteType),
          Field("created", UTCString(0)),
          Field("jws", Str(<<Chunk("txt", "h", 0, NoBytes), Dot, Dot,
                             Chunk("txt", "s", 0, NoBytes)>>))>>)
DocWithProof == SetProp(DocAlice, "proof", ForeignProof)
SignInputs == {DocAlice, DocBob, DocWithProof, Null, Txt("Alice")}

\* strings handed to deserialize, besides the one serialize returned
FixedTexts ==
    {JSONStringify(Null), JSONStringify(Bool(FALSE)), JSONStringify(EmptyString),
     JSONStringify(Txt("Alice")), JSONStringify(DocAlice),
     JSONStringify(SetProp(DocAlice, "proof", Null)), <<LBrace>>}

\* times the clock shows
Times == 1..MaxClock

\* validation key lists handed to verify
KeyArgs ==
    {NoKeys, KeyList(<<"K1">>), KeyList(<<"K2", "K1">>)}

\* changes a caller can make to the payload object sign retained (line 64)
ProofFields == {"type", "verificationMethod", "proofPurpose", "created"}
Change(scope, k, how, v) == [scope |-> scope, k |-> k, how |-> how, v |-> v]
Changes ==
    {Change("doc", "name", "set", Txt("Mallory")),
     Change("doc", "extra", "set", Txt("x")),
     Change("doc", "proof", "delete", Undefined)}
    \cup {Change("proof", k, "set", Txt("tampered")) : k \in ProofFields}
    \cup {Change("proof", "created", "delete", Undefined)}
    \cup {Change("proof", "@context", "set", v) :
            v \in {SecurityContext, Txt("https://example.org/ctx"), Null}}
    \cup {Change("proof", "jws", how, Undefined) :
            how \in {"drop-dot", "add-segment"}}
    \cup {Change("proof", "jws", "set", Null)}

ChangeObject(o, e) ==
    IF e.how = "delete" THEN DeleteProp(o, e.k)
    ELSE IF e.how = "set" THEN SetProp(o, e.k, e.v)
    ELSE LET parts == Split(Get(o, e.k).s)
         IN IF e.how = "drop-dot"
            THEN SetProp(o, e.k, Str(parts[1] \o <<Dot>> \o parts[Len(parts)]))
            ELSE SetProp(o, e.k, Str(Get(o, e.k).s
                                     \o <<Dot, Chunk("txt", "x", 0, NoBytes)>>))

ApplyChange(held, e) ==
    IF e.scope = "doc" THEN ChangeObject(held, e)
    ELSE SetProp(held, "proof", ChangeObject(Get(held, "proof"), e))

CanChange(held, e) ==
    /\ held.t = "object"
    /\ e.scope = "proof" =>
         /\ Get(held, "proof").t = "object"
         /\ e.how \in {"drop-dot", "add-segment"} =>
              Get(Get(held, "proof"), "jws").t = "string"

Idle == [active |-> FALSE, keys |-> NoKeys, verifyData |-> <<>>,
         before |-> Undefined, minted |-> FALSE]
Call(op, outcome, keys, before, minted) ==
    [op |-> op, outcome |-> outcome, keys |-> keys, before |-> before,
     minted |-> minted]
NoCall == Call("none", "", NoKeys, Undefined, FALSE)
NotSigned == [has |-> FALSE, cred |-> Undefined, key |-> "", hadProof |-> FALSE]
NotSerialized == [has |-> FALSE, text |-> <<>>, from |-> Undefined,
                  asSigned |-> FALSE]

\* constructor, lines 21-25: nothing is held
Init ==
    /\ credential = Undefined
    /\ identity = "K1"
    /\ pending = Idle
    /\ edits = 0
    /\ origin = "none"
    /\ signed = NotSigned
    /\ serialized = NotSerialized
    /\ roundTrip = FALSE
    /\ calls = 0
    /\ last = NoCall

Completed(call) ==
    /\ calls < MaxCalls
    /\ calls' = calls + 1
    /\ last' = call

\* the caller drops the processor and constructs another one, for the
\* other identity
NewProcessor ==
    /\ ~pending.active
    /\ origin # "none"
    /\ identity = "K1"
    /\ credential' = Undefined
    /\ identity' = "K2"
    /\ origin' = "none"
    /\ roundTrip' = FALSE
    /\ signed' = NotSigned
    /\ last' = NoCall
    /\ UNCHANGED <<pending, edits, serialized, calls>>

\* now: the time the clock shows during the call
Sign(payload, now) ==
    LET r == SignRun(payload, credential, identity, now)
    IN /\ credential' = r.held
       /\ Completed(Call("sign", r.outcome, NoKeys, Undefined, FALSE))
       /\ IF r.outcome = "ok"
          THEN /\ origin' = "sign"
               /\ signed' = [has |-> TRUE, cred |-> r.held, key |-> identity,
                             hadProof |-> HasOwn(payload, "proof")]
               /\ roundTrip' = FALSE
               /\ edits' = 0
          ELSE UNCHANGED <<origin, signed, roundTrip, edits>>
       /\ UNCHANGED <<identity, pending, serialized>>

\* the caller changes the object it handed to sign, which the slot still holds
ChangePayload(e) ==
    /\ origin = "sign"
    /\ edits < MaxEdits
    /\ CanChange(credential, e)
    /\ ApplyChange(credential, e) # credential
    /\ credential' = ApplyChange(credential, e)
    /\ edits' = edits + 1
    /\ Completed(Call("change", "ok", NoKeys, Undefined, FALSE))
    /\ UNCHANGED <<identity, pending, origin, signed, serialized, roundTrip>>

Verify(keys, now) ==
    LET r == VerifyRun(credential, identity, keys, now)
    IN /\ ~pending.active
       /\ credential' = r.held
       /\ Completed(Call("verify", r.outcome, keys, credential, r.minted))
       /\ UNCHANGED <<identity, pending, edits, origin, signed, serialized,
                      roundTrip>>

Serialize ==
    LET r == SerializeRun(credential)
    IN /\ Completed(Call("serialize", r.outcome, NoKeys, credential, FALSE))
       /\ IF r.outcome = "ok"
          THEN /\ serialized' = [has |-> TRUE, text |-> r.text,
                                  from |-> credential,
                                  asSigned |-> origin = "sign"
                                               /\ credential = signed.cred]
               /\ roundTrip' = FALSE
          ELSE UNCHANGED <<serialized, roundTrip>>
       /\ UNCHANGED <<credential, identity, pending, edits, origin, signed>>

Deserialize(text) ==
    LET r == DeserializeRun(text, credential)
    IN /\ credential' = r.held
       /\ Completed(Call("deserialize", r.outcome, NoKeys, Undefined, FALSE))
       /\ IF r.outcome = "ok"
          THEN /\ origin' = "text"
               /\ signed' = NotSigned
               /\ roundTrip' = (serialized.has /\ text = serialized.text)
          ELSE UNCHANGED <<origin, signed, roundTrip>>
       /\ UNCHANGED <<identity, pending, edits, serialized>>

DeserializeFixed == \E text \in FixedTexts : Deserialize(text)

DeserializeSerialized == serialized.has /\ Deserialize(serialized.text)

\* verify up to the await of line 85; a rejection for an empty slot is final
VerifyBegin(keys, now) ==
    /\ ~pending.active
    /\ IF NoCredential(credential)
       THEN /\ Completed(Call("verify", "NoCredential", keys, credential, FALSE))
            /\ UNCHANGED <<credential, pending>>
       ELSE LET p == VerifyPrepare(credential, identity, now)
            IN /\ pending' = [active |-> TRUE, keys |-> keys,
                              verifyData |-> p.verifyData, before |-> credential,
                              minted |-> p.minted]
               /\ credential' = p.held
               /\ calls < MaxCalls
               /\ UNCHANGED <<calls, last>>
    /\ UNCHANGED <<identity, edits, origin, signed, serialized, roundTrip>>

\* verify from line 88 on
VerifyEnd ==
    /\ pending.active
    /\ pending' = Idle
    /\ Completed(Call("verify",
                      CheckSignature(HeldAtLine88(credential, pending.before),
                                     pending.verifyData, pending.keys),
                      pending.keys, pending.before, pending.minted))
    /\ UNCHANGED <<credential, identity, edits, origin, signed, serialized,
                   roundTrip>>

\* calls made one after the other
Next ==
    \/ NewProcessor
    \/ \E payload \in SignInputs, now \in Times : Sign(payload, now)
    \/ \E e \in Changes : ChangePayload(e)
    \/ \E keys \in KeyArgs, now \in Times : Verify(keys, now)
    \/ Serialize
    \/ DeserializeFixed
    \/ DeserializeSerialized

Spec == Init /\ [][Next]_vars

\* calls on one instance that overlap: verify is suspended at its await
\* while another call completes.  sign writes the slot after its last await
\* (lines 60-64), so it is one step at its completion.
NextConcurrent ==
    \/ \E payload \in SignInputs, now \in Times : Sign(payload, now)
    \/ \E keys \in KeyArgs, now \in Times : VerifyBegin(keys, now)
    \/ VerifyEnd
    \/ Serialize
    \/ DeserializeFixed
    \/ DeserializeSerialized

ConcurrentSpec == Init /\ [][NextConcurrent]_vars

(***************************************************************************)
(* Properties.                                                             *)
(***************************************************************************)
\* the slot holds what the latest sign left, unchanged
HoldsAsSigned == origin = "sign" /\ signed.has /\ credential = signed.cred
FirstKeyIs(keys, k) == keys.given /\ keys.list[1] = k
JwsOf(held) == Get(Get(held, "proof"), "jws")
HasToken(held) == Truthy(held) /\ JwsOf(held).t = "string"

\* C1: round trip.  After sign(D) completes, for any object D and with or
\* without a proof field on D, verify with the signing identity's public key
\* first returns true.
C1_RoundTrip ==
    (last.op = "verify" /\ HoldsAsSigned /\ FirstKeyIs(last.keys, signed.key))
        => last.outcome = "true"

\* the document and the proof fields other than jws, order of keys forgotten
Content(held) ==
    <<Canonize(DeleteProp(held, "proof")),
      Canonize(DeleteProp(Get(held, "proof"), "jws"))>>

\* the held credential differs from the signed one in its document or in a
\* proof field other than jws, and its jws is the one sign wrote
Tampered ==
    /\ origin = "sign" /\ signed.has
    /\ Get(credential, "proof").t = "object"
    /\ JwsOf(credential) = JwsOf(signed.cred)
    /\ Content(credential) # Content(signed.cred)

\* C2 as stated: after sign, any change to the document or to a proof field
\* other than jws, a newly set @context included, makes verify with the
\* matching public key return false.
C2_TamperAlwaysFalse ==
    (last.op = "verify" /\ Tampered /\ FirstKeyIs(last.keys, signed.key))
        => last.outcome = "false"

\* a proof whose @context is the default one or a falsy value reads as a
\* proof without @context
NeutralContext(v) == ~Truthy(v) \/ v = SecurityContext
WithoutNeutralContext(held) ==
    LET proof == Get(held, "proof")
    IN IF HasOwn(proof, "@context") /\ NeutralContext(Get(proof, "@context"))
       THEN SetProp(held, "proof", DeleteProp(proof, "@context"))
       ELSE held
OnlyNeutralContextSet ==
    Tampered /\ Content(WithoutNeutralContext(credential)) = Content(signed.cred)

\* C2 amended: such a change makes verify with the matching public key
\* return false, unless all it does is set the proof's @context to the
\* default security context or to a falsy value; verify then returns what
\* it returns for the credential as signed.
C2_TamperDetected ==
    (last.op = "verify" /\ Tampered /\ FirstKeyIs(last.keys, signed.key))
        => IF OnlyNeutralContextSet
           THEN last.outcome
                  = VerifyRun(signed.cred, identity, last.keys, 1).outcome
           ELSE last.outcome = "false"

C2_Witness ==
    /\ last.op = "verify" /\ Tampered /\ FirstKeyIs(last.keys, signed.key)
    /\ ~OnlyNeutralContextSet
    /\ HasOwn(Get(credential, "proof"), "@context")
    /\ ~signed.hadProof
    /\ last.outcome = "false"

\* C3 as stated: with a validly signed credential held, verify with a wrong
\* first key returns false, and verify aborts only for a missing credential
\* or a malformed token.
C3_OnlyTwoFailures ==
    (last.op = "verify" /\ HoldsAsSigned)
        => /\ (last.keys.given /\ last.keys.list[1] # signed.key)
                => last.outcome = "false"
           /\ last.outcome \in {"true", "false", "NoCredential", "MalformedToken"}

\* C3 amended: a wrong first key gives false and never an error; verify
\* aborts for a missing credential and for a malformed token, and also with
\* a TypeError when the held value has no proof, the proof no string jws,
\* or no key list is passed.
C3_WrongKeyFalse ==
    last.op = "verify" =>
        /\ (HoldsAsSigned /\ last.keys.given /\ last.keys.list[1] # signed.key)
             => last.outcome = "false"
        /\ last.outcome = "NoCredential" <=> ~Truthy(last.before)
        /\ last.outcome = "MalformedToken"
             <=> (HasToken(last.before) /\ Len(Split(JwsOf(last.before).s)) # 3)
        /\ last.outcome = "TypeError"
             <=> /\ Truthy(last.before)
                 /\ \/ ~HasToken(last.before)
                    \/ Len(Split(JwsOf(last.before).s)) = 3 /\ ~last.keys.given
        /\ last.outcome \in {"true", "false", "NoCredential", "MalformedToken",
                             "TypeError"}

C3_Witness ==
    /\ last.op = "verify" /\ HoldsAsSigned /\ ~signed.hadProof
    /\ last.keys.given /\ last.keys.list[1] # signed.key
    /\ last.outcome = "false"

\* C4: when the held proof.jws is a string that does not split on '.' into
\* exactly 3 segments, verify fails with MalformedToken whatever the keys.
C4_MalformedToken ==
    (last.op = "verify" /\ HasToken(last.before)
       /\ Len(Split(JwsOf(last.before).s)) # 3)
        => last.outcome = "MalformedToken"

C4_Witness ==
    /\ last.op = "verify" /\ HasToken(last.before)
    /\ Len(Split(JwsOf(last.before).s)) = 4
    /\ FirstKeyIs(last.keys, signed.key)
    /\ last.outcome = "MalformedToken"

\* C5 as stated: serialize and verify fail with NoCredential exactly when no
\* sign or deserialize has completed on the processor, whatever value a
\* deserialized text parsed to.
C5_HeldAfterAnyLoad ==
    last.op \in {"serialize", "verify"}
        => (last.outcome = "NoCredential" <=> origin = "none")

\* null, false and the empty string
FalsyJson(v) ==
    \/ v.t = "null"
    \/ v.t = "boolean" /\ ~v.b
    \/ v.t = "string" /\ v.s = <<>>

\* C5 amended: serialize and verify fail with NoCredential exactly when no
\* sign or deserialize has completed on the processor, or the latest one to
\* complete was a deserialize of a text that parsed to a falsy value (null,
\* false, "").
C5_NoCredential ==
    last.op \in {"serialize", "verify"}
        => (last.outcome = "NoCredential"
              <=> (origin = "none" \/ (origin = "text" /\ FalsyJson(credential))))

C5_Witness ==
    /\ last.op = "serialize" /\ last.outcome = "NoCredential"
    /\ origin = "text" /\ credential = Null

\* C6: after deserialize(serialize()), on the same processor or a new one,
\* verify returns what verify returns for the serialized credential itself
\* with the same keys.
C6_SerializeDeserialize ==
    (last.op = "verify" /\ roundTrip)
        => last.outcome
             = VerifyRun(serialized.from, identity, last.keys, 1).outcome

C6_Witness ==
    /\ last.op = "verify" /\ roundTrip /\ serialized.asSigned
    /\ identity = "K2" /\ FirstKeyIs(last.keys, "K1")
    /\ last.outcome = "true"

\* C7: the jws sign writes splits on '.' into three segments, the middle one
\* empty, the first one the header of the signing input; verify of a
\* credential as signed never fails with MalformedToken.
C7_DetachedPayload ==
    /\ (last.op = "sign" /\ last.outcome = "ok")
         => /\ JwsOf(credential).t = "string"
            /\ LET parts == Split(JwsOf(credential).s)
               IN /\ Len(parts) = 3
                  /\ parts[2] = <<>>
                  /\ parts[1] = Base64UrlToBuffer(parts[3]).hdr
    /\ (last.op = "verify" /\ HoldsAsSigned) => last.outcome # "MalformedToken"

C7_Witness ==
    /\ last.op = "sign" /\ last.outcome = "ok" /\ signed.hadProof
    /\ Split(JwsOf(credential).s)[2] = <<>>

\* C8: verify never mints fresh proof options with a new created time, also
\* when the held credential has no proof or a null one.
C8_NeverMints ==
    (last.op = "verify" /\ last.outcome # "NoCredential") => ~last.minted

\* C9: a verify call checks the VerifyData of the credential held when it
\* started against the jws of the credential held when it resumed; when
\* another call replaced the slot in between, the two differ.
C9_MixedRead ==
    (last.op = "verify" /\ last.outcome # "NoCredential")
        => \E now \in Times :
             last.outcome
               = CheckSignature(credential,
                                VerifyPrepare(last.before, identity, now).verifyData,
                                last.keys)

C9_Witness ==
    /\ last.op = "verify" /\ last.before # credential
    /\ last.outcome = "false"
    /\ VerifyRun(last.before, identity, last.keys, 1).outcome = "true"
    /\ VerifyRun(credential, identity, last.keys, 1).outcome = "true"

\* C10: verify and serialize leave the held credential as it was, its proof
\* with jws and without @context; a verify repeated with the same keys
\* returns the same result, and serialize returns after a verify the string
\* it returned before it.
C10_ReadOnly ==
    /\ last.op \in {"verify", "serialize"} => credential = last.before
    /\ last.op = "verify" =>
         /\ \A now \in Times :
              VerifyRun(credential, identity, last.keys, now).outcome
                = last.outcome
         /\ SerializeRun(credential) = SerializeRun(last.before)

C10_Witness ==
    /\ last.op = "verify" /\ HoldsAsSigned /\ last.outcome = "true"
    /\ JwsOf(credential).t = "string"
    /\ ~HasOwn(Get(credential, "proof"), "@context")
====
